---- MODULE Spec2Model ----
(***************************************************************************)
(* Model of automeshion/testcases.py: the TestCase coordinator (__call__,  *)
(* setup), the teardown reporter AMTestResult.stopTestRun, and the         *)
(* provisioning helpers set_namespace and set_docker_images.               *)
(*                                                                         *)
(* Four specifications share the module:                                   *)
(*   Spec           one TestCase object going through __call__             *)
(*   SpecNamespace  set_namespace, run by NumRuns test runs on one cluster *)
(*   SpecImages     set_docker_images applied to a loaded config           *)
(*   SpecGenesis    the genesis wait                                       *)
(*   SpecPoet       start_poet applied to a bootstrap DeploymentInfo       *)
(*   SpecProvision  set_namespace and add_elk called on one TestCase       *)
(*   SpecPoll       a readiness poll, with the fairness of a running loop  *)
(* Namespace names are numbers 1..MaxNames; 0 is the empty string ''.      *)
(***************************************************************************)
EXTENDS Integers, Sequences, FiniteSets, TLC

\* ---- bounds ----
MaxCalls == 2
MaxNames == 2
NumRuns == 2
MaxImages == 2
MaxDelta == 9
MaxElapsed == 12
MaxPods == 2
MaxPodIds == 2
MaxTimeout == 4

Names == 1..MaxNames
Runs == 1..NumRuns
Images == 1..MaxImages
PodIds == 1..MaxPodIds

VARIABLES
  \* TestCase.__call__ / unittest.TestCase.run
  pc, calls, classSkip, methodSkip, unittestSkip, debug, result, stopHook,
  skipped, hasConfig, selfNamespace, indexDateSet, resultErrors,
  resultFailures, resultSkips, setupRuns, setupRan, setupFailed, bodyRan,
  reporterCalls, tasks, propagated, phases,
  \* set_namespace
  cluster, nsSelf, nsConfig, nsPc, nsListed, createIssued, nsError,
  \* set_docker_images
  dockerImage, config, configBefore, imgPc,
  \* genesis wait
  delta, elapsed, slept, genPc,
  \* start_poet
  hasBootstrap, bootstrapPods, phraseLogged, poetPc, poetSearches,
  poetInitCalls, poetError,
  \* add_elk
  elkPc, elkCalls, elkFailed,
  \* readiness poll
  pollKind, pollTimeout, pollReadyAt, pollWaited, pollPc, reportedSuccess,
  reportedTimeout

lifeVars == <<pc, calls, classSkip, methodSkip, unittestSkip, debug, result,
              stopHook, skipped, hasConfig, selfNamespace, indexDateSet,
              resultErrors, resultFailures, resultSkips, setupRuns, setupRan,
              setupFailed, bodyRan, reporterCalls, tasks, propagated, phases>>
nsVars == <<cluster, nsSelf, nsConfig, nsPc, nsListed, createIssued, nsError>>
imgVars == <<dockerImage, config, configBefore, imgPc>>
genVars == <<delta, elapsed, slept, genPc>>
poetVars == <<hasBootstrap, bootstrapPods, phraseLogged, poetPc, poetSearches,
              poetInitCalls, poetError>>
elkVars == <<elkPc, elkCalls, elkFailed>>
pollVars == <<pollKind, pollTimeout, pollReadyAt, pollWaited, pollPc,
              reportedSuccess, reportedTimeout>>
vars == <<lifeVars, nsVars, imgVars, genVars, poetVars, elkVars, pollVars>>

\* ---- quiescent values of each group, used by the other specifications ----
LifeIdle ==
  /\ pc = "idle" /\ calls = 0
  /\ classSkip = FALSE /\ methodSkip = FALSE /\ unittestSkip = FALSE
  /\ debug = "unbound" /\ result = "None" /\ stopHook = FALSE
  /\ skipped = FALSE /\ hasConfig = FALSE /\ selfNamespace = 0
  /\ indexDateSet = FALSE /\ resultErrors = 0 /\ resultFailures = 0
  /\ resultSkips = 0 /\ setupRuns = 0 /\ setupRan = FALSE
  /\ setupFailed = FALSE /\ bodyRan = FALSE /\ reporterCalls = 0
  /\ tasks = <<>> /\ propagated = "none" /\ phases = <<>>

NsIdle ==
  /\ cluster = {} /\ nsSelf = [r \in Runs |-> 1] /\ nsConfig = [r \in Runs |-> 0]
  /\ nsPc = [r \in Runs |-> "done"] /\ nsListed = [r \in Runs |-> {}]
  /\ createIssued = [r \in Runs |-> <<>>] /\ nsError = [r \in Runs |-> "none"]

ImgIdle ==
  /\ dockerImage = 0 /\ config = <<>> /\ configBefore = <<>> /\ imgPc = "done"

GenIdle ==
  /\ delta = 0 /\ elapsed = 0 /\ slept = 0 /\ genPc = "done"

\* start_poet not in progress; the pod log is left to the specification
PoetCallIdle ==
  /\ hasBootstrap = FALSE /\ bootstrapPods = <<>> /\ poetPc = "done"
  /\ poetSearches = <<>> /\ poetInitCalls = <<>> /\ poetError = "none"

PoetIdle == PoetCallIdle /\ phraseLogged = FALSE

ElkIdle ==
  /\ elkPc = "done" /\ elkCalls = <<>> /\ elkFailed = "none"

PollIdle ==
  /\ pollKind = "none" /\ pollTimeout = 0 /\ pollReadyAt = 0 /\ pollWaited = 0
  /\ pollPc = "done" /\ reportedSuccess = FALSE /\ reportedTimeout = FALSE

(***************************************************************************)
(* TestCase.__call__ and the unittest machinery it delegates to            *)
(***************************************************************************)

\* The seven setup phases the class documentation promises, in order.
SetupPhases ==
  <<"set_namespace", "add_elk", "add_node_pool", "setup_bootstrap",
    "start_poet", "setup_clients", "wait_genesis">>

\* Instance attributes of an AMTestResult: __init__ sets testcase only
\* (unittest.TestResult adds failures, errors, ..., none named namespace
\* or index_date).
AMTestResultAttrs == [testcase |-> "self"]

\* Keys of dump_params when the run failed.
DumpKeys ==
  {"index_date", "es_ip", "es_user", "es_pass", "main_es_ip",
   "dump_queue_name", "dump_queue_zone"}

\* unittest.TestResult.wasSuccessful
WasSuccessful(errs, fails) == errs = 0 /\ fails = 0

\* line 247, mutated: a loaded config is ignored
NeedsSetup_IgnoreConfig(skp, cfg) == ~skp

\* line 247, mutated: the skip marker is ignored
NeedsSetup_IgnoreSkip(skp, cfg) == ~cfg

\* line 247: if not skipped and not hasattr(self, 'config')
NeedsSetup(skp, cfg) == ~skp /\ ~cfg

InitLife ==
  /\ pc = "idle" /\ calls = 0
  /\ classSkip \in BOOLEAN /\ methodSkip \in BOOLEAN
  /\ unittestSkip \in BOOLEAN
  /\ debug \in {"unbound", "True", "False"}
  /\ result = "None" /\ stopHook = FALSE
  /\ skipped = FALSE /\ hasConfig = FALSE /\ selfNamespace = 0
  /\ indexDateSet = FALSE /\ resultErrors = 0 /\ resultFailures = 0
  /\ resultSkips = 0 /\ setupRuns = 0 /\ setupRan = FALSE
  /\ setupFailed = FALSE /\ bodyRan = FALSE /\ reporterCalls = 0
  /\ tasks = <<>> /\ propagated = "none" /\ phases = <<>>

\* __call__ entry, lines 241-247: evaluate the skip markers and decide
\* whether setup runs.  res is the result argument ("None" or "given").
Call(res) ==
  /\ pc \in {"idle", "done", "raised"}
  /\ calls < MaxCalls
  /\ calls' = calls + 1
  /\ result' = res
  /\ skipped' = (classSkip \/ methodSkip)
  /\ pc' = IF NeedsSetup(skipped', hasConfig) THEN "setup" ELSE "super"
  /\ stopHook' = FALSE /\ setupRan' = FALSE /\ setupFailed' = FALSE
  /\ bodyRan' = FALSE /\ reporterCalls' = 0 /\ propagated' = "none"
  /\ resultErrors' = 0 /\ resultFailures' = 0 /\ resultSkips' = 0
  /\ UNCHANGED <<classSkip, methodSkip, unittestSkip, debug, hasConfig,
                 selfNamespace, indexDateSet, setupRuns, tasks, phases>>

\* TestCase.setup, lines 96-118.  Lines 102-118 (load_k8s_config through
\* wait_genesis) are the body of a string literal, so no phase executes:
\* setup assigns namespace and index_date and loads the config file.
Setup ==
  /\ pc = "setup"
  /\ setupRuns' = setupRuns + 1
  /\ setupRan' = TRUE
  /\ \E n \in Names : selfNamespace' = n
  /\ indexDateSet' = TRUE
  /\ \E readable \in BOOLEAN :
       IF readable
         THEN hasConfig' = TRUE /\ setupFailed' = FALSE /\ pc' = "super"
         ELSE hasConfig' = hasConfig /\ setupFailed' = TRUE /\ pc' = "except"
  /\ phases' = phases
  /\ UNCHANGED <<calls, classSkip, methodSkip, unittestSkip, debug, result,
                 stopHook, skipped, resultErrors, resultFailures, resultSkips,
                 bodyRan, reporterCalls, tasks, propagated>>

\* lines 250-254, mutated: the debug branch does not re-raise and the
\* handler falls through to super().__call__
HandleSetupError_NoReraise ==
  /\ pc = "except"
  /\ IF debug = "unbound"
       THEN pc' = "raised" /\ propagated' = "NameError"
            /\ resultErrors' = resultErrors
       ELSE IF debug = "True"
         THEN pc' = "super" /\ propagated' = propagated
              /\ resultErrors' = resultErrors
         ELSE IF result = "None"
           THEN pc' = "raised" /\ propagated' = "AttributeError"
                /\ resultErrors' = resultErrors
           ELSE pc' = "done" /\ propagated' = propagated
                /\ resultErrors' = resultErrors + 1
  /\ UNCHANGED <<calls, classSkip, methodSkip, unittestSkip, debug, result,
                 stopHook, skipped, hasConfig, selfNamespace, indexDateSet,
                 resultFailures, resultSkips, setupRuns, setupRan,
                 setupFailed, bodyRan, reporterCalls, tasks, phases>>

\* except handler, lines 250-254.  The name debug is looked up in the
\* module namespace: the module never binds it ("unbound": NameError);
\* bound to a true value the exception is re-raised; bound to a false
\* value result.addError is called (AttributeError when result is None)
\* and __call__ returns.
HandleSetupError ==
  /\ pc = "except"
  /\ IF debug = "unbound"
       THEN pc' = "raised" /\ propagated' = "NameError"
            /\ resultErrors' = resultErrors
       ELSE IF debug = "True"
         THEN pc' = "raised" /\ propagated' = "SetupError"
              /\ resultErrors' = resultErrors
         ELSE IF result = "None"
           THEN pc' = "raised" /\ propagated' = "AttributeError"
                /\ resultErrors' = resultErrors
           ELSE pc' = "done" /\ propagated' = propagated
                /\ resultErrors' = resultErrors + 1
  /\ UNCHANGED <<calls, classSkip, methodSkip, unittestSkip, debug, result,
                 stopHook, skipped, hasConfig, selfNamespace, indexDateSet,
                 resultFailures, resultSkips, setupRuns, setupRan,
                 setupFailed, bodyRan, reporterCalls, tasks, phases>>

\* line 255, super().__call__(result): the head of unittest.TestCase.run.
\* With no result a default one is built (defaultTestResult, lines
\* 257-259) and its stopTestRun is remembered; a test marked with
\* unittest's own skip marker is recorded as skipped and not run.
SuperCall ==
  /\ pc = "super"
  /\ IF result = "None"
       THEN result' = "AMTestResult" /\ stopHook' = TRUE
       ELSE result' = result /\ stopHook' = FALSE
  /\ IF unittestSkip
       THEN resultSkips' = resultSkips + 1 /\ pc' = "finally"
       ELSE resultSkips' = resultSkips /\ pc' = "body"
  /\ UNCHANGED <<calls, classSkip, methodSkip, unittestSkip, debug, skipped,
                 hasConfig, selfNamespace, indexDateSet, resultErrors,
                 resultFailures, setupRuns, setupRan, setupFailed, bodyRan,
                 reporterCalls, tasks, propagated, phases>>

\* The scenario (test method) runs inside unittest.TestCase.run; its
\* outcome is recorded on the result.
RunBody ==
  /\ pc = "body"
  /\ bodyRan' = TRUE
  /\ \E outcome \in {"pass", "fail", "error"} :
       /\ resultErrors' = resultErrors + (IF outcome = "error" THEN 1 ELSE 0)
       /\ resultFailures' = resultFailures + (IF outcome = "fail" THEN 1 ELSE 0)
  /\ pc' = "finally"
  /\ UNCHANGED <<calls, classSkip, methodSkip, unittestSkip, debug, result,
                 stopHook, skipped, hasConfig, selfNamespace, indexDateSet,
                 resultSkips, setupRuns, setupRan, setupFailed, reporterCalls,
                 tasks, propagated, phases>>

\* AMTestResult.stopTestRun, lines 268-298.  self is the result object:
\* self.index_date (read when the run failed) and self.namespace (read in
\* both cases) are attribute lookups on it.  When they resolve, one task
\* is submitted with create_google_cloud_task.
StopTestRun ==
  LET success == WasSuccessful(resultErrors, resultFailures)
      needed == IF success THEN {"namespace"} ELSE {"index_date", "namespace"}
  IN  /\ reporterCalls' = reporterCalls + 1
      /\ IF needed \subseteq DOMAIN AMTestResultAttrs
           THEN /\ tasks' = Append(tasks,
                      [namespace |-> AMTestResultAttrs["namespace"],
                       is_delns |-> TRUE,
                       is_dump |-> ~success,
                       dump_params |-> IF success THEN {} ELSE DumpKeys])
                /\ pc' = "done"
                /\ propagated' = propagated
           ELSE /\ tasks' = tasks
                /\ pc' = "raised"
                /\ propagated' = "AttributeError"

\* The finally clause of unittest.TestCase.run: stopTest, then stopTestRun
\* when the result was the default one.
Finally ==
  /\ pc = "finally"
  /\ IF stopHook
       THEN StopTestRun
       ELSE /\ pc' = "done"
            /\ UNCHANGED <<reporterCalls, tasks, propagated>>
  /\ UNCHANGED <<calls, classSkip, methodSkip, unittestSkip, debug, result,
                 stopHook, skipped, hasConfig, selfNamespace, indexDateSet,
                 resultErrors, resultFailures, resultSkips, setupRuns,
                 setupRan, setupFailed, bodyRan, phases>>

NextLife ==
  \/ \E res \in {"None", "given"} : Call(res)
  \/ Setup
  \/ HandleSetupError
  \/ SuperCall
  \/ RunBody
  \/ Finally

\* The cluster is the environment of a run: whether the readiness phrase
\* ever appears in the bootstrap pod's log is not decided by this code.
InitPodLog == PoetCallIdle /\ phraseLogged \in BOOLEAN

Init == InitLife /\ NsIdle /\ ImgIdle /\ GenIdle /\ InitPodLog /\ ElkIdle /\ PollIdle
Next == NextLife /\ UNCHANGED <<nsVars, imgVars, genVars, poetVars, elkVars, pollVars>>
Spec == Init /\ [][Next]_vars

\* the invocation of __call__ is over
Ended == pc \in {"done", "raised"}

(***************************************************************************)
(* TestCase.set_namespace, run by several test runs against one cluster    *)
(***************************************************************************)

InitNamespace ==
  /\ cluster \in SUBSET Names
  /\ nsSelf \in [Runs -> Names]
  /\ nsConfig \in [Runs -> {0} \cup Names]
  /\ nsPc = [r \in Runs |-> "start"]
  /\ nsListed = [r \in Runs |-> {}]
  /\ createIssued = [r \in Runs |-> <<>>]
  /\ nsError = [r \in Runs |-> "none"]

\* lines 156-161: an empty config['namespace'] is filled in with
\* self.namespace, then the existing namespaces are listed.
SetNamespaceList(r) ==
  /\ nsPc[r] = "start"
  /\ nsConfig' = [nsConfig EXCEPT ![r] = IF @ = 0 THEN nsSelf[r] ELSE @]
  /\ nsListed' = [nsListed EXCEPT ![r] = cluster]
  /\ nsPc' = [nsPc EXCEPT ![r] = "listed"]
  /\ UNCHANGED <<cluster, nsSelf, createIssued, nsError>>

\* line 162, mutated: the list is not consulted
IsListed_Never(r) == FALSE

\* line 162, mutated: the membership test looks at self.namespace
IsListed_SelfNamespace(r) == nsSelf[r] \in nsListed[r]

\* line 162: if self.config['namespace'] in namespaces_list
IsListed(r) == nsConfig[r] \in nsListed[r]

\* lines 162-167: a listed name raises ValueError; otherwise one
\* create_namespace call is issued, which the cluster rejects when the
\* name has appeared since the list was taken.
SetNamespaceCreate(r) ==
  /\ nsPc[r] = "listed"
  /\ IF IsListed(r)
       THEN /\ nsError' = [nsError EXCEPT ![r] = "ValueError"]
            /\ nsPc' = [nsPc EXCEPT ![r] = "raised"]
            /\ UNCHANGED <<cluster, createIssued>>
       ELSE /\ createIssued' =
                 [createIssued EXCEPT ![r] = Append(@, nsConfig[r])]
            /\ IF nsConfig[r] \in cluster
                 THEN /\ nsError' = [nsError EXCEPT ![r] = "ApiException"]
                      /\ nsPc' = [nsPc EXCEPT ![r] = "raised"]
                      /\ cluster' = cluster
                 ELSE /\ nsError' = nsError
                      /\ nsPc' = [nsPc EXCEPT ![r] = "done"]
                      /\ cluster' = cluster \cup {nsConfig[r]}
  /\ UNCHANGED <<nsSelf, nsConfig, nsListed>>

NextNamespace ==
  \/ \E r \in Runs : SetNamespaceList(r)
  \/ \E r \in Runs : SetNamespaceCreate(r)

InitNamespaceSpec ==
  LifeIdle /\ InitNamespace /\ ImgIdle /\ GenIdle /\ PoetIdle /\ ElkIdle /\ PollIdle
NextNamespaceSpec ==
  NextNamespace /\ UNCHANGED <<lifeVars, imgVars, genVars, poetVars, elkVars, pollVars>>
SpecNamespace == InitNamespaceSpec /\ [][NextNamespaceSpec]_vars

(***************************************************************************)
(* TestCase.set_docker_images                                              *)
(* config is the loaded mapping; clientv2_present says whether the key     *)
(* clientv2 exists, clientv2_image = 0 that clientv2 has no image key,     *)
(* clientv2_noreplace = "absent" that it has no noreplace key.             *)
(* dockerImage is CLIENT_DOCKER_IMAGE, 0 when unset or empty.              *)
(***************************************************************************)

Clientv2Configs ==
  {[present |-> FALSE, image |-> 0, noreplace |-> "absent"]} \cup
  [present : {TRUE}, image : {0} \cup Images,
   noreplace : {"absent", "True", "False"}]

Configs ==
  {[bootstrap_image |-> b, client_image |-> c,
    clientv2_present |-> v.present, clientv2_image |-> v.image,
    clientv2_noreplace |-> v.noreplace] :
      b \in Images, c \in Images, v \in Clientv2Configs}

\* lines 122-133, mutated: clientv2 is overridden whatever noreplace says
OverrideImages_IgnoreNoreplace(cfg, img) ==
  IF img # 0
    THEN [cfg EXCEPT !.bootstrap_image = img,
                     !.client_image = img,
                     !.clientv2_image = IF cfg.clientv2_present THEN img ELSE @]
    ELSE cfg

\* lines 122-133: the config after set_docker_images with override img
OverrideImages(cfg, img) ==
  IF img # 0
    THEN [cfg EXCEPT !.bootstrap_image = img,
                     !.client_image = img,
                     !.clientv2_image =
                        IF cfg.clientv2_present
                          THEN IF cfg.clientv2_noreplace = "True"
                                 THEN @ ELSE img
                          ELSE @]
    ELSE cfg

InitImages ==
  /\ dockerImage \in {0} \cup Images
  /\ config \in Configs
  /\ configBefore = config
  /\ imgPc = "start"

\* set_docker_images, lines 120-136
SetDockerImages ==
  /\ imgPc = "start"
  /\ config' = OverrideImages(config, dockerImage)
  /\ imgPc' = "done"
  /\ UNCHANGED <<dockerImage, configBefore>>

InitImagesSpec ==
  LifeIdle /\ NsIdle /\ InitImages /\ GenIdle /\ PoetIdle /\ ElkIdle /\ PollIdle
NextImagesSpec ==
  SetDockerImages /\ UNCHANGED <<lifeVars, nsVars, genVars, poetVars, elkVars, pollVars>>
SpecImages == InitImagesSpec /\ [][NextImagesSpec]_vars

(***************************************************************************)
(* Genesis wait (wait_genesis / get_genesis_time_delta, automeshion.utils)  *)
(***************************************************************************)

\* mutated: the difference is not clamped at zero
Remaining_Unclamped(d, e) == d - e

\* remaining = max(0, delta - elapsedSinceDeploymentStart)
Remaining(d, e) == IF d - e > 0 THEN d - e ELSE 0

InitGenesis ==
  /\ delta \in 0..MaxDelta
  /\ elapsed \in 0..MaxElapsed
  /\ slept = 0
  /\ genPc = "start"

\* awaitGenesis: sleep for the remaining time
AwaitGenesis ==
  /\ genPc = "start"
  /\ slept' = Remaining(delta, elapsed)
  /\ genPc' = "done"
  /\ UNCHANGED <<delta, elapsed>>

InitGenesisSpec ==
  LifeIdle /\ NsIdle /\ ImgIdle /\ InitGenesis /\ PoetIdle /\ ElkIdle /\ PollIdle
NextGenesisSpec ==
  AwaitGenesis /\ UNCHANGED <<lifeVars, nsVars, imgVars, poetVars, elkVars, pollVars>>
SpecGenesis == InitGenesisSpec /\ [][NextGenesisSpec]_vars


(***************************************************************************)
(* TestCase.start_poet                                                     *)
(* self.bootstrap is a DeploymentInfo (hasBootstrap) whose pods list is    *)
(* bootstrapPods; DeploymentInfo.__init__ starts it empty.                 *)
(***************************************************************************)

Pods == [name : PodIds, pod_ip : PodIds]

PodLists == UNION {[1..n -> Pods] : n \in 0..MaxPods}

\* lines 204-206, mutated: the search result is not looked at
Match_Ignored == TRUE

\* lines 204-205: the result of search_phrase_in_pod_log for the phrase
\* "REST proxy start listening on 0.0.0.0:80"
Match == phraseLogged

InitPoet ==
  /\ hasBootstrap \in BOOLEAN
  /\ bootstrapPods \in (IF hasBootstrap THEN PodLists ELSE {<<>>})
  /\ phraseLogged \in BOOLEAN
  /\ poetPc = "start"
  /\ poetSearches = <<>>
  /\ poetInitCalls = <<>>
  /\ poetError = "none"

\* lines 202-207: take pods[0], search its log, raise when the phrase is
\* not found.
StartPoetSearch ==
  /\ poetPc = "start"
  /\ IF ~hasBootstrap
       THEN /\ poetError' = "AttributeError" /\ poetPc' = "raised"
            /\ poetSearches' = poetSearches
       ELSE IF bootstrapPods = <<>>
         THEN /\ poetError' = "IndexError" /\ poetPc' = "raised"
              /\ poetSearches' = poetSearches
         ELSE /\ poetSearches' = Append(poetSearches, bootstrapPods[1].name)
              /\ IF Match
                   THEN poetError' = poetError /\ poetPc' = "matched"
                   ELSE poetError' = "Exception" /\ poetPc' = "raised"
  /\ UNCHANGED <<hasBootstrap, bootstrapPods, phraseLogged, poetInitCalls>>

\* lines 209-213: the v1/start call to the bootstrap pod's address and
\* the assertion that it answered "{}".
StartPoetInit ==
  /\ poetPc = "matched"
  /\ poetInitCalls' = Append(poetInitCalls, bootstrapPods[1].pod_ip)
  /\ \E out \in {"{}", "error"} :
       IF out = "{}"
         THEN poetError' = poetError /\ poetPc' = "done"
         ELSE poetError' = "AssertionError" /\ poetPc' = "raised"
  /\ UNCHANGED <<hasBootstrap, bootstrapPods, phraseLogged, poetSearches>>

NextPoet ==
  \/ StartPoetSearch
  \/ StartPoetInit

InitPoetSpec ==
  LifeIdle /\ NsIdle /\ ImgIdle /\ GenIdle /\ InitPoet /\ ElkIdle /\ PollIdle
NextPoetSpec ==
  NextPoet /\ UNCHANGED <<lifeVars, nsVars, imgVars, genVars, elkVars, pollVars>>
SpecPoet == InitPoetSpec /\ [][NextPoetSpec]_vars


(***************************************************************************)
(* Readiness polls (wait_for_elk_cluster_ready, NodePoolDep.add_node_pool, *)
(* wait_for_to_be_ready, and the pod waits of setup_bootstrap_in_namespace *)
(* and setup_clients_in_namespace): check the predicate, sleep a fixed     *)
(* interval, repeat until satisfied or timed out.  Time is counted in      *)
(* intervals.  pollReadyAt is the interval from which the external         *)
(* predicate holds; a value above pollTimeout is a predicate that does not *)
(* become true while the poll runs.                                        *)
(***************************************************************************)

PollKinds == {"logging_stack", "node_pool", "daemonset", "bootstrap", "clients"}

InitPoll ==
  /\ pollKind \in PollKinds
  /\ pollTimeout \in 1..MaxTimeout
  /\ pollReadyAt \in 0..(MaxTimeout + 1)
  /\ pollWaited = 0
  /\ pollPc = "polling"
  /\ reportedSuccess = FALSE
  /\ reportedTimeout = FALSE

\* mutated: the loop has no deadline and loses track of the time waited
PollStep_NoDeadline ==
  /\ pollPc = "polling"
  /\ IF pollWaited >= pollReadyAt
       THEN /\ reportedSuccess' = TRUE /\ pollPc' = "done"
            /\ UNCHANGED <<reportedTimeout, pollWaited>>
       ELSE UNCHANGED <<reportedSuccess, reportedTimeout, pollWaited, pollPc>>
  /\ UNCHANGED <<pollKind, pollTimeout, pollReadyAt>>

\* one iteration of the bounded polling loop
PollStep ==
  /\ pollPc = "polling"
  /\ IF pollWaited >= pollReadyAt
       THEN /\ reportedSuccess' = TRUE /\ pollPc' = "done"
            /\ UNCHANGED <<reportedTimeout, pollWaited>>
       ELSE IF pollWaited >= pollTimeout
         THEN /\ reportedTimeout' = TRUE /\ pollPc' = "done"
              /\ UNCHANGED <<reportedSuccess, pollWaited>>
         ELSE /\ pollWaited' = pollWaited + 1
              /\ UNCHANGED <<reportedSuccess, reportedTimeout, pollPc>>
  /\ UNCHANGED <<pollKind, pollTimeout, pollReadyAt>>

InitPollSpec ==
  LifeIdle /\ NsIdle /\ ImgIdle /\ GenIdle /\ PoetIdle /\ ElkIdle /\ InitPoll
NextPollSpec ==
  PollStep /\ UNCHANGED <<lifeVars, nsVars, imgVars, genVars, poetVars, elkVars>>
\* a loop that is running keeps iterating
SpecPoll == InitPollSpec /\ [][NextPollSpec]_vars /\ WF_vars(NextPollSpec)


(***************************************************************************)
(* TestCase.add_elk, and set_namespace on the same TestCase (run 1).       *)
(* The two methods are called by one thread, in either order: neither      *)
(* starts while the other is in progress.                                  *)
(***************************************************************************)

\* lines 171-174, mutated: the dashboard is created first
ElkOrder_KibanaFirst ==
  <<"add_kibana_cluster", "add_elastic_cluster", "add_fluent_bit_cluster",
    "wait_for_elk_cluster_ready">>

\* lines 171-174: the calls of add_elk, in program order
ElkOrder ==
  <<"add_elastic_cluster", "add_fluent_bit_cluster", "add_kibana_cluster",
    "wait_for_elk_cluster_ready">>

InitProvision ==
  /\ cluster \in SUBSET Names
  /\ \E n \in Names : nsSelf = [r \in Runs |-> IF r = 1 THEN n ELSE 1]
  /\ \E c \in {0} \cup Names : nsConfig = [r \in Runs |-> IF r = 1 THEN c ELSE 0]
  /\ nsPc = [r \in Runs |-> IF r = 1 THEN "start" ELSE "done"]
  /\ nsListed = [r \in Runs |-> {}]
  /\ createIssued = [r \in Runs |-> <<>>]
  /\ nsError = [r \in Runs |-> "none"]
  /\ elkPc = "ready"
  /\ elkCalls = <<>>
  /\ elkFailed = "none"

\* add_elk, lines 169-174: the next call of the method, made with
\* self.namespace; a call that raises ends the method.
AddElkCall ==
  /\ elkPc \in {"ready", "running"}
  /\ elkPc = "ready" => nsPc[1] # "listed"
  /\ LET i == Len(elkCalls) + 1
     IN  /\ elkCalls' = Append(elkCalls,
                               [call |-> ElkOrder[i], namespace |-> nsSelf[1]])
         /\ \E ok \in BOOLEAN :
              IF ok
                THEN /\ elkPc' = IF i = Len(ElkOrder) THEN "done" ELSE "running"
                     /\ elkFailed' = elkFailed
                ELSE /\ elkPc' = "raised"
                     /\ elkFailed' = ElkOrder[i]
  /\ UNCHANGED nsVars

ProvisionSetNamespaceList ==
  /\ elkPc # "running"
  /\ SetNamespaceList(1)
  /\ UNCHANGED elkVars

ProvisionSetNamespaceCreate ==
  /\ SetNamespaceCreate(1)
  /\ UNCHANGED elkVars

NextProvision ==
  \/ AddElkCall
  \/ ProvisionSetNamespaceList
  \/ ProvisionSetNamespaceCreate

InitProvisionSpec ==
  LifeIdle /\ InitProvision /\ ImgIdle /\ GenIdle /\ PoetIdle /\ PollIdle
NextProvisionSpec ==
  NextProvision /\ UNCHANGED <<lifeVars, imgVars, genVars, poetVars, pollVars>>
SpecProvision == InitProvisionSpec /\ [][NextProvisionSpec]_vars

(***************************************************************************)
(* Properties                                                              *)
(***************************************************************************)

\* C1: in every run that is neither skipped nor in debug mode, stopTestRun
\* has been invoked exactly once when the run is over.
C1_ReporterExactlyOnce ==
  (Ended /\ ~skipped /\ debug # "True") => reporterCalls = 1

\* C2: outside debug mode a failed setup does not propagate: it is recorded
\* as an error of the test, the scenario is not run, and the reporter is
\* invoked with an unsuccessful result.
C2_SetupFailureRecorded ==
  (Ended /\ setupFailed /\ debug # "True") =>
     /\ propagated = "none"
     /\ resultErrors >= 1
     /\ ~bodyRan
     /\ reporterCalls = 1

C4_SkippedIsTerminal ==
  skipped => (~setupRan /\ ~bodyRan /\ reporterCalls = 0)

\* C4 (amended): a run marked to skip executes no setup phase (no namespace
\* is generated, no phase runs, no config is loaded), and the skip
\* decision is taken only when no invocation is in progress.
C4_SkipRunsNoSetup ==
  [][ /\ skipped' => /\ ~setupRan'
                     /\ pc' \notin {"setup", "except"}
                     /\ setupRuns' = setupRuns
                     /\ selfNamespace' = selfNamespace
                     /\ hasConfig' = hasConfig
                     /\ phases' = <<>>
      /\ (skipped' /\ ~skipped) => pc \in {"idle", "done", "raised"} ]_vars

C4_Witness == skipped /\ Ended /\ ~setupRan /\ bodyRan

C7_ScenarioAfterGenesis ==
  (bodyRan /\ ~skipped) => phases = SetupPhases

\* C8: set_namespace issues no create call before it has listed; once it
\* is over, a name found in the list gave ValueError and no create call, and
\* any other name gave exactly one create call for that name.
C8_ListThenCreate ==
  \A r \in Runs :
    /\ nsPc[r] \in {"start", "listed"} => createIssued[r] = <<>>
    /\ nsPc[r] \in {"done", "raised"} =>
         IF nsConfig[r] \in nsListed[r]
           THEN nsError[r] = "ValueError" /\ createIssued[r] = <<>>
           ELSE nsError[r] # "ValueError" /\ createIssued[r] = <<nsConfig[r]>>

C8_Witness ==
  \E r, q \in Runs :
    /\ nsError[r] = "ValueError" /\ createIssued[r] = <<>>
    /\ nsPc[q] = "done" /\ createIssued[q] = <<nsConfig[q]>>

\* C9: after set_docker_images with a non-empty override, bootstrap.image
\* and client.image equal the override; clientv2.image equals it too unless
\* clientv2.noreplace is true, in which case clientv2.image is unchanged.
C9_ImageOverride ==
  (imgPc = "done" /\ dockerImage # 0) =>
     /\ config.bootstrap_image = dockerImage
     /\ config.client_image = dockerImage
     /\ config.clientv2_present =>
          IF config.clientv2_noreplace = "True"
            THEN config.clientv2_image = configBefore.clientv2_image
            ELSE config.clientv2_image = dockerImage

C9_Witness ==
  /\ imgPc = "done" /\ dockerImage # 0
  /\ config.clientv2_present /\ config.clientv2_noreplace = "True"
  /\ configBefore.clientv2_image \notin {0, dockerImage}
  /\ configBefore.bootstrap_image # dockerImage
  /\ config.bootstrap_image = dockerImage

\* C10: the genesis wait sleeps delta - elapsed when elapsed is below delta
\* and 0, never a negative time, when elapsed is at or above delta.
C10_RemainingClamped ==
  genPc = "done" =>
     /\ slept >= 0
     /\ elapsed < delta => slept = delta - elapsed
     /\ elapsed >= delta => slept = 0

C10_Witness == genPc = "done" /\ elapsed > delta /\ slept = 0

\* C11: when the bootstrap pod never logs the readiness phrase, the run
\* ends as a failure (success = false) and the submitted task has
\* is_dump = true.
C11_NoPhraseFailsRun ==
  (Ended /\ ~skipped /\ debug # "True" /\ ~phraseLogged) =>
     /\ ~WasSuccessful(resultErrors, resultFailures)
     /\ tasks # <<>>
     /\ tasks[Len(tasks)].is_dump = TRUE

\* C13: the initialization call is issued only after the bootstrap pod's
\* log was searched and the phrase found; when the phrase is absent
\* start_poet fails and issues no initialization call.
C13_InitAfterPhrase ==
  /\ poetInitCalls # <<>> => (phraseLogged /\ poetSearches # <<>>)
  /\ Len(poetInitCalls) <= 1
  /\ (poetPc \in {"done", "raised"} /\ ~phraseLogged) =>
        (poetError # "none" /\ poetInitCalls = <<>>)

C13_Witness ==
  /\ poetPc = "raised" /\ poetError = "Exception" /\ ~phraseLogged
  /\ poetSearches # <<>> /\ poetInitCalls = <<>>

\* C12: every readiness poll terminates, and once over it has reported
\* exactly one of success and timeout; before that it has reported
\* neither.
C12_PollTerminatesWithOneOutcome ==
  /\ <>(pollPc = "done")
  /\ [](pollPc = "done" => (reportedSuccess # reportedTimeout))
  /\ [](pollPc # "done" => (~reportedSuccess /\ ~reportedTimeout))

C12_Witness ==
  /\ pollPc = "done" /\ reportedTimeout /\ ~reportedSuccess
  /\ pollReadyAt > pollTimeout

\* C15: add_elk makes its calls in the order indexer, log-collector
\* daemon, dashboard, readiness poll; the poll is started only after the
\* three creation calls returned, and never when one of them failed.
C15_ElkOrder ==
  /\ Len(elkCalls) <= 4
  /\ \A i \in DOMAIN elkCalls :
       elkCalls[i].call =
         <<"add_elastic_cluster", "add_fluent_bit_cluster",
           "add_kibana_cluster", "wait_for_elk_cluster_ready">>[i]
  /\ elkFailed \in {"add_elastic_cluster", "add_fluent_bit_cluster",
                    "add_kibana_cluster"} =>
       /\ elkPc = "raised"
       /\ \A i \in DOMAIN elkCalls :
            elkCalls[i].call # "wait_for_elk_cluster_ready"

C15_Witness ==
  /\ elkPc = "raised" /\ elkFailed = "add_fluent_bit_cluster"
  /\ Len(elkCalls) = 2

\* C20: the namespace the logging stack is deployed in is the namespace
\* set_namespace created, whether the configured namespace was empty or
\* not.
C20_OneNamespace ==
  \A i \in DOMAIN elkCalls : \A j \in DOMAIN createIssued[1] :
    elkCalls[i].namespace = createIssued[1][j]

\* C16 (as stated): of two runs provisioning the same name, at most one
\* issues the create call for it.
C16_AtMostOneCreateCall ==
  \A r, q \in Runs :
    (r # q /\ createIssued[r] # <<>> /\ createIssued[q] # <<>>) =>
       createIssued[r][1] # createIssued[q][1]

\* C16 (amended): of two runs provisioning the same name at most one
\* completes set_namespace, and a run whose list contained the name issues
\* no create call for it.
C16_AtMostOneCreated ==
  \A r, q \in Runs :
    /\ (r # q /\ nsPc[r] = "done" /\ nsPc[q] = "done") =>
          nsConfig[r] # nsConfig[q]
    /\ \A i \in DOMAIN createIssued[r] : createIssued[r][i] \notin nsListed[r]

C16_Witness ==
  \E r, q \in Runs :
    /\ r # q
    /\ createIssued[r] # <<>> /\ createIssued[r] = createIssued[q]
    /\ nsPc[r] = "done" /\ nsError[q] = "ApiException"

\* C19: once the test case object has its config loaded, no invocation of
\* __call__ runs setup again.
C19_SetupOnceConfigLoaded ==
  [][hasConfig => (setupRuns' = setupRuns /\ pc' # "setup")]_vars

C19_Witness ==
  /\ calls = 2 /\ ~skipped /\ hasConfig /\ setupRuns = 1
  /\ ~setupRan /\ bodyRan
====
